---- MODULE Spec2Model ----
(***************************************************************************)
(* Model of the labor-map data acquisition pipeline:                       *)
(*   scripts/fetch-oews.js  wage phase (swdev_wage)                        *)
(*   scripts/fetch-laus.js  unemployment phase (unemployment_rate)         *)
(*   scripts/fetch-bls.js   orchestrator (OEWS first, then LAUS)           *)
(* Strings that the code inspects character by character (series           *)
(* identifiers, value texts) are sequences of one-character strings.       *)
(* Numbers are integers in hundredths (4.1 is 410, 150000 is 15000000).    *)
(***************************************************************************)
EXTENDS Integers, Sequences, FiniteSets, TLC

\* ---------------------------------------------------------------- bounds
\* number of phase launches (standalone or by the orchestrator) in a behaviour
MaxRuns == 2

\* ---------------------------------------------------------------- constants
\* fetch-oews.js:75,95 chunk size of the wage phase
ChunkSize == 25
\* fetch-oews.js:120 hours per year of the hourly -> annual conversion
HoursPerYear == 2080

SEASONAL == <<"U">>
AREATYPE == <<"S">>
INDUSTRY == <<"0","0","0","0","0","0">>
SOC == <<"1","5","1","2","5","2">>
PRIMARY_DATATYPE == <<"0","4">>
HOURLY_DATATYPE == <<"0","3">>
FALLBACK_DATATYPES == << <<"0","3">> >>

\* Lower-48 + DC, in the order of Object.entries(STATES): <<abbr, fips2>>
STATES == <<
  <<"AL", <<"0","1">>>>, <<"AZ", <<"0","4">>>>, <<"AR", <<"0","5">>>>, <<"CA", <<"0","6">>>>,
  <<"CO", <<"0","8">>>>, <<"CT", <<"0","9">>>>, <<"DE", <<"1","0">>>>, <<"FL", <<"1","2">>>>,
  <<"GA", <<"1","3">>>>, <<"ID", <<"1","6">>>>, <<"IL", <<"1","7">>>>, <<"IN", <<"1","8">>>>,
  <<"IA", <<"1","9">>>>, <<"KS", <<"2","0">>>>, <<"KY", <<"2","1">>>>, <<"LA", <<"2","2">>>>,
  <<"ME", <<"2","3">>>>, <<"MD", <<"2","4">>>>, <<"MA", <<"2","5">>>>, <<"MI", <<"2","6">>>>,
  <<"MN", <<"2","7">>>>, <<"MS", <<"2","8">>>>, <<"MO", <<"2","9">>>>, <<"MT", <<"3","0">>>>,
  <<"NE", <<"3","1">>>>, <<"NV", <<"3","2">>>>, <<"NH", <<"3","3">>>>, <<"NJ", <<"3","4">>>>,
  <<"NM", <<"3","5">>>>, <<"NY", <<"3","6">>>>, <<"NC", <<"3","7">>>>, <<"ND", <<"3","8">>>>,
  <<"OH", <<"3","9">>>>, <<"OK", <<"4","0">>>>, <<"OR", <<"4","1">>>>, <<"PA", <<"4","2">>>>,
  <<"RI", <<"4","4">>>>, <<"SC", <<"4","5">>>>, <<"SD", <<"4","6">>>>, <<"TN", <<"4","7">>>>,
  <<"TX", <<"4","8">>>>, <<"UT", <<"4","9">>>>, <<"VT", <<"5","0">>>>, <<"VA", <<"5","1">>>>,
  <<"WA", <<"5","3">>>>, <<"WV", <<"5","4">>>>, <<"WI", <<"5","5">>>>, <<"WY", <<"5","6">>>>,
  <<"DC", <<"1","1">>>>
>>

NumStates == Len(STATES)
Abbrs == {STATES[i][1] : i \in 1..NumStates}

UR == "unemployment_rate"
WAGE == "swdev_wage"

\* ---------------------------------------------------------------- JS values
Undef == <<"undef", 0>>
Null == <<"null", 0>>
NaN == <<"nan", 0>>
Num(n) == <<"num", n>>
\* Number.isFinite(v)
IsFinite(v) == v[1] = "num"
\* v == null (loose equality: null or undefined)
IsNullish(v) == v[1] \in {"null", "undef"}

Min(a, b) == IF a < b THEN a ELSE b

\* "0".repeat(n)
Zeros(n) == [i \in 1..n |-> "0"]

\* ---------------------------------------------------------------- SeriesIdBuilder
\* variant of areaCodeFromFips: the two-digit state code alone, as in the
\* earlier 20-character layout (makeSeriesId(stateCode, datatype))
areaCodeFromFips_StateOnly(fips2) == fips2

\* fetch-oews.js areaCodeFromFips: FIPS2 + '00000'
areaCodeFromFips(fips2) == fips2 \o Zeros(5)

\* fetch-oews.js makeSeriesIdFromArea
makeSeriesIdFromArea(area_code, datatype) ==
  <<"O","E">> \o SEASONAL \o AREATYPE \o area_code \o INDUSTRY \o SOC \o datatype

\* fetch-laus.js buildSeriesId: LA + S + ST{FIPS2} + 11 zeros + 03
buildSeriesId(fips2) ==
  LET area == <<"S","T">> \o fips2 \o Zeros(11)
  IN  <<"L","A">> \o <<"S">> \o area \o <<"0","3">>

\* ---------------------------------------------------------------- value texts
IsDigit(c) == c \in {"0","1","2","3","4","5","6","7","8","9"}

DigitVal(c) ==
  CASE c = "0" -> 0 [] c = "1" -> 1 [] c = "2" -> 2 [] c = "3" -> 3 [] c = "4" -> 4
    [] c = "5" -> 5 [] c = "6" -> 6 [] c = "7" -> 7 [] c = "8" -> 8 [] c = "9" -> 9

\* number of consecutive digits of s starting at position i
RECURSIVE DigitRun(_, _)
DigitRun(s, i) ==
  IF i <= Len(s) /\ IsDigit(s[i]) THEN 1 + DigitRun(s, i + 1) ELSE 0

\* value of the digit string s[a..b]
RECURSIVE DecValue(_, _, _)
DecValue(s, a, b) ==
  IF b < a THEN 0 ELSE 10 * DecValue(s, a, b - 1) + DigitVal(s[b])

\* longest prefix of s of the form digits[.digits]: its length and its value in
\* hundredths (value texts carry at most two fractional digits)
NumericPrefix(s) ==
  LET n1 == DigitRun(s, 1)
      hasDot == n1 > 0 /\ Len(s) > n1 /\ s[n1 + 1] = "."
      n2 == IF hasDot THEN DigitRun(s, n1 + 2) ELSE 0
      d1 == IF n2 >= 1 THEN DigitVal(s[n1 + 2]) ELSE 0
      d2 == IF n2 >= 2 THEN DigitVal(s[n1 + 3]) ELSE 0
  IN  [len |-> IF hasDot THEN n1 + 1 + n2 ELSE n1,
       val |-> 100 * DecValue(s, 1, n1) + 10 * d1 + d2]

\* JS Number(text): the whole text must be numeric; "" is 0
NumberOf(s) ==
  LET p == NumericPrefix(s)
  IN  IF s = <<>> THEN Num(0)
      ELSE IF p.len = Len(s) THEN Num(p.val) ELSE NaN

\* JS parseFloat(text): the longest numeric prefix, NaN when there is none
ParseFloat(s) ==
  LET p == NumericPrefix(s)
  IN  IF p.len = 0 THEN NaN ELSE Num(p.val)

\* Math.round(hourly * 2080) on hundredths: nearest integer, halves up
RoundHourlyToAnnual(h) == ((h * HoursPerYear + 50) \div 100) * 100

\* ---------------------------------------------------------------- upstream API
\* what the API holds for one series: no such series, or its data rows
NoSeries == [in |-> FALSE, data |-> <<>>]
NoData == [in |-> TRUE, data |-> <<>>]
Row(text) == [in |-> TRUE, data |-> << [value |-> text] >>]

\* the STATES table indexed by two-digit code: the first row with that code
IndexByFips ==
  [f \in {STATES[i][2] : i \in 1..NumStates} |->
     CHOOSE i \in 1..NumStates :
       /\ STATES[i][2] = f
       /\ \A j \in 1..NumStates : STATES[j][2] = f => i <= j]

\* the state with this two-digit code, as an index into STATES; 0 when none
StateIndexOf(fips2) ==
  IF fips2 \in DOMAIN IndexByFips THEN IndexByFips[fips2] ELSE 0

\* the series an identifier names in the API's catalogue (BLS layout: oe.txt,
\* LAUS): <<index into STATES, kind>>, kind "p" annual mean wage, "h" hourly
\* mean wage, "u" unemployment rate; <<0, "none">> for any other text
CatalogEntry(id) ==
  IF /\ Len(id) = 25
     /\ SubSeq(id, 1, 4) = <<"O","E","U","S">>
     /\ SubSeq(id, 7, 23) = Zeros(11) \o <<"1","5","1","2","5","2">>
     /\ SubSeq(id, 24, 25) \in {<<"0","4">>, <<"0","3">>}
  THEN <<StateIndexOf(SubSeq(id, 5, 6)),
         IF SubSeq(id, 24, 25) = <<"0","4">> THEN "p" ELSE "h">>
  ELSE IF /\ Len(id) = 20
          /\ SubSeq(id, 1, 5) = <<"L","A","S","S","T">>
          /\ SubSeq(id, 8, 20) = Zeros(11) \o <<"0","3">>
       THEN <<StateIndexOf(SubSeq(id, 6, 7)), "u">>
       ELSE <<0, "none">>

FocusRegion == "CA"

\* the API's content for the series of region abbr under scenario a
Outcome(a, abbr, kind) ==
  IF abbr = FocusRegion THEN a.focus[kind] ELSE a.dflt[kind]

\* the API's content for identifier id: an unknown identifier has no series
SeriesFor(a, id) ==
  LET e == CatalogEntry(id)
  IN  IF e[1] = 0 THEN NoSeries ELSE Outcome(a, STATES[e[1]][1], e[2])

\* Results.series of a successful reply to a request for seriesIds
RECURSIVE ReplySeries(_, _, _)
ReplySeries(a, seriesIds, i) ==
  IF i > Len(seriesIds) THEN <<>>
  ELSE LET o == SeriesFor(a, seriesIds[i])
       IN  (IF o.in THEN << [seriesID |-> seriesIds[i], data |-> o.data] >> ELSE <<>>)
           \o ReplySeries(a, seriesIds, i + 1)

\* replies of the endpoint to one POST
ReplyOk == [thrown |-> FALSE, status |-> "REQUEST_SUCCEEDED", daily |-> FALSE]
\* daily threshold reached
ReplyQuota == [thrown |-> FALSE, status |-> "REQUEST_NOT_PROCESSED", daily |-> TRUE]
\* not processed for another reason (invalid key, malformed request)
ReplyNotProcessed == [thrown |-> FALSE, status |-> "REQUEST_NOT_PROCESSED", daily |-> FALSE]
ReplyFailed == [thrown |-> FALSE, status |-> "REQUEST_FAILED", daily |-> FALSE]
\* axios throws: timeout or transport error
ReplyTransport == [thrown |-> TRUE, status |-> "none", daily |-> FALSE]
Replies == {ReplyOk, ReplyQuota, ReplyNotProcessed, ReplyFailed, ReplyTransport}

\* the reply is a daily-threshold (quota) rejection
IsQuotaReply(r) == r.daily
\* resp?.data?.status !== "REQUEST_SUCCEEDED" or axios threw
CallThrows(r) == r.thrown \/ r.status # "REQUEST_SUCCEEDED"
\* String(e.message).includes(tok) for the error raised on reply r
MessageIncludes(r, tok) ==
  /\ ~r.thrown
  /\ \/ tok = "daily threshold" /\ r.daily
     \/ tok = "REQUEST_NOT_PROCESSED" /\ r.status = "REQUEST_NOT_PROCESSED"

\* ---------------------------------------------------------------- dataset file
\* a file is absent, or a text: its layout and the mapping it denotes
NoFile == [exists |-> FALSE, fmt |-> "none", data |-> <<>>]
\* JSON.stringify(out, null, 2)
Stringify(out) == [exists |-> TRUE, fmt |-> "pretty", data |-> out]
\* variant of ReadExisting: a missing file is read as a seed dataset with
\* one record, for a key outside the table, instead of the empty mapping
ReadExisting_Seeded(f) ==
  IF f.exists THEN f.data ELSE ("PR" :> ((UR :> Null) @@ (WAGE :> Null)))

\* fs.existsSync(OUT_FILE) ? JSON.parse(fs.readFileSync(OUT_FILE)) : {}
ReadExisting(f) == IF f.exists THEN f.data ELSE <<>>

\* obj[k] for a plain object held as a function
Get(obj, k) == IF k \in DOMAIN obj THEN obj[k] ELSE Undef
\* obj[k] = v
Put(obj, k, v) == (k :> v) @@ obj
\* Object.assign(a, b)
Assign(a, b) == b @@ a

\* ---------------------------------------------------------------- wage phase, pure parts
\* fetch-oews.js:69-71 primaryIds
PrimaryIds ==
  [i \in 1..NumStates |->
     makeSeriesIdFromArea(areaCodeFromFips(STATES[i][2]), PRIMARY_DATATYPE)]

\* variant of Slice: the end of the slice is one too far
\* (arr.slice(i, i + size + 1)), so consecutive slices overlap
Slice_Overlap(arr, i, size) == SubSeq(arr, i + 1, Min(i + size + 1, Len(arr)))

\* arr.slice(i, i + size) with i counted from 0
Slice(arr, i, size) == SubSeq(arr, i + 1, Min(i + size, Len(arr)))

\* fetch-oews.js:74-75 chunks of primaryIds
Chunks(ids) ==
  [k \in 1..((Len(ids) + ChunkSize - 1) \div ChunkSize) |->
     Slice(ids, (k - 1) * ChunkSize, ChunkSize)]

\* variant of FetchLatestOut: the test row.value !== "" is dropped, so an
\* empty value is kept (as Number("") = 0)
FetchLatestOut_KeepsEmpty(series) ==
  LET ok(i) == Len(series[i].data) > 0
      idxs == {i \in 1..Len(series) : ok(i)}
      ids == {series[i].seriesID : i \in idxs}
      last(id) == CHOOSE i \in idxs :
                    /\ series[i].seriesID = id
                    /\ \A j \in idxs : series[j].seriesID = id => j <= i
  IN  [id \in ids |-> NumberOf(series[last(id)].data[1].value)]

\* fetch-oews.js:56-61 result mapping of fetchLatest for Results.series
FetchLatestOut(series) ==
  LET ok(i) == Len(series[i].data) > 0 /\ series[i].data[1].value # <<>>
      idxs == {i \in 1..Len(series) : ok(i)}
      ids == {series[i].seriesID : i \in idxs}
      last(id) == CHOOSE i \in idxs :
                    /\ series[i].seriesID = id
                    /\ \A j \in idxs : series[j].seriesID = id => j <= i
  IN  [id \in ids |-> NumberOf(series[last(id)].data[1].value)]

\* variant of MissingAfterPrimary: the filter on valuesPrimary is dropped, so
\* every state is retried with the fallback datatype as soon as one is missing
MissingAfterPrimary_AllStates(vp) ==
  IF \A i \in 1..NumStates : PrimaryIds[i] \in DOMAIN vp
  THEN <<>>
  ELSE [i \in 1..NumStates |-> i]

\* fetch-oews.js:84-88 states with no primary value, as indices into STATES
MissingAfterPrimary(vp) ==
  LET idx == {i \in 1..NumStates : PrimaryIds[i] \notin DOMAIN vp}
      F[n \in 0..NumStates] ==
        IF n = 0 THEN <<>>
        ELSE IF n \in idx THEN Append(F[n - 1], n) ELSE F[n - 1]
  IN  F[NumStates]

\* fetch-oews.js:94 ids of the still-missing states for datatype dt
FallbackIds(miss, dt) ==
  [k \in 1..Len(miss) |-> makeSeriesIdFromArea(areaCodeFromFips(STATES[miss[k]][2]), dt)]

\* fetch-oews.js:100-105 remove the states this datatype filled
StillMissing(miss, vf, dt) ==
  SelectSeq(miss, LAMBDA i :
    IsNullish(Get(vf, makeSeriesIdFromArea(areaCodeFromFips(STATES[i][2]), dt))))

\* variant of WageVal: the annual estimate is cut off instead of rounded
\* (Math.floor(hourly * 2080))
WageVal_Floor(fips, vp, vf) ==
  LET sidAnnual == makeSeriesIdFromArea(areaCodeFromFips(fips), PRIMARY_DATATYPE)
      val == Get(vp, sidAnnual)
      sidHourly == makeSeriesIdFromArea(areaCodeFromFips(fips), HOURLY_DATATYPE)
      hourly == Get(vf, sidHourly)
  IN  IF IsNullish(val) /\ IsFinite(hourly)
      THEN Num(((hourly[2] * HoursPerYear) \div 100) * 100)
      ELSE val

\* fetch-oews.js:113-121 the value to store for one state
WageVal(fips, vp, vf) ==
  LET sidAnnual == makeSeriesIdFromArea(areaCodeFromFips(fips), PRIMARY_DATATYPE)
      val == Get(vp, sidAnnual)
      sidHourly == makeSeriesIdFromArea(areaCodeFromFips(fips), HOURLY_DATATYPE)
      hourly == Get(vf, sidHourly)
  IN  IF IsNullish(val) /\ IsFinite(hourly)
      THEN Num(RoundHourlyToAnnual(hourly[2]))
      ELSE val

\* variant of WageRecord: the record is rebuilt instead of updated
\* (out[abbr] = { unemployment_rate: null, swdev_wage: val })
WageRecord_Rebuilt(out, abbr, val) ==
  (UR :> Null) @@ (WAGE :> IF IsFinite(val) THEN val ELSE Null)

\* variant of WageRecord: an else slipped in, so a record created in this run
\* does not receive its value (if (!out[abbr]) {...} else if (isFinite) ...)
WageRecord_ElseSlip(out, abbr, val) ==
  IF abbr \notin DOMAIN out THEN (UR :> Null) @@ (WAGE :> Null)
  ELSE IF IsFinite(val) THEN Put(out[abbr], WAGE, val) ELSE out[abbr]

\* fetch-oews.js:123-124 the record of one state after the merge
WageRecord(out, abbr, val) ==
  LET rec == IF abbr \in DOMAIN out THEN out[abbr]
             ELSE (UR :> Null) @@ (WAGE :> Null)
  IN  IF IsFinite(val) THEN Put(rec, WAGE, val) ELSE rec

\* variant of WageMerge: out starts empty instead of from the parsed file
\* entries, so keys outside STATES are lost
WageMerge_OnlyStates(out, vp, vf) ==
  LET rec(abbr) ==
        LET i == CHOOSE j \in 1..NumStates : STATES[j][1] = abbr
        IN  WageRecord(out, abbr, WageVal(STATES[i][2], vp, vf))
  IN  [k \in Abbrs |-> rec(k)]

\* fetch-oews.js:111-125 merge into the parsed latest.json
WageMerge(out, vp, vf) ==
  LET rec(abbr) ==
        LET i == CHOOSE j \in 1..NumStates : STATES[j][1] = abbr
        IN  WageRecord(out, abbr, WageVal(STATES[i][2], vp, vf))
  IN  [k \in DOMAIN out \cup Abbrs |-> IF k \in Abbrs THEN rec(k) ELSE out[k]]

\* ---------------------------------------------------------------- unemployment phase, pure parts
\* fetch-laus.js:49 allSeriesIds
AllSeriesIds == [i \in 1..NumStates |-> buildSeriesId(STATES[i][2])]

\* variant of AbbrIndexOf: the code is cut one character early
\* (id.substring(4, 6))
AbbrIndexOf_Shifted(id) ==
  LET fips2 == SubSeq(id, Min(5, Len(id) + 1), Min(6, Len(id)))
  IN  StateIndexOf(fips2)

\* fetch-laus.js:78-79 id.substring(5, 7) looked up in STATES; 0 when not found
AbbrIndexOf(id) ==
  LET fips2 == SubSeq(id, Min(6, Len(id) + 1), Min(7, Len(id)))
  IN  StateIndexOf(fips2)

\* fetch-laus.js:82-92 one series applied to the record of its state; rec is
\* out[abbr], or the empty object when out has no such key
LausApply(rec, s) ==
  LET noRow == Len(s.data) = 0 \/ s.data[1].value = <<>>
      v == ParseFloat(s.data[1].value)
  IN  IF noRow
      THEN (IF UR \in DOMAIN rec THEN rec ELSE Put(rec, UR, Null))
      ELSE Put(rec, UR, IF IsFinite(v) THEN v ELSE Null)

\* fetch-laus.js:78-80 the series is stored under state k
SeriesOfState(s, k) ==
  /\ Len(s.seriesID) >= 7
  /\ SubSeq(s.seriesID, 6, 7) = STATES[k][2]
  /\ AbbrIndexOf(s.seriesID) = k

\* fetch-laus.js:76-93 all returned series applied in order; a series changes
\* only the record of its own state, so each record is folded over its series
LausMerge(out, mergedSeries) ==
  LET touched == {k \in 1..NumStates :
                    \E i \in 1..Len(mergedSeries) : SeriesOfState(mergedSeries[i], k)}
      rec(k) ==
        LET abbr == STATES[k][1]
            mine == SelectSeq(mergedSeries, LAMBDA s : SeriesOfState(s, k))
            F[n \in 0..Len(mine)] ==
              IF n = 0 THEN (IF abbr \in DOMAIN out THEN out[abbr] ELSE <<>>)
              ELSE LausApply(F[n - 1], mine[n])
        IN  F[Len(mine)]
      new == [k \in touched |-> rec(k)]
      at(abbr) == CHOOSE k \in touched : STATES[k][1] = abbr
      touchedAbbrs == {STATES[k][1] : k \in touched}
  IN  [a \in DOMAIN out \cup touchedAbbrs |->
         IF a \in touchedAbbrs THEN new[at(a)] ELSE out[a]]

\* fetch-laus.js:57 the catch treats the error as quota
LausTreatsAsQuota(r) ==
  MessageIncludes(r, "daily threshold") \/ MessageIncludes(r, "REQUEST_NOT_PROCESSED")

\* ---------------------------------------------------------------- scenarios
T150000 == <<"1","5","0","0","0","0">>
T160000 == <<"1","6","0","0","0","0">>
T7200 == <<"7","2",".","0","0">>
T7201 == <<"7","2",".","0","1">>
TDash == <<"-">>
T41 == <<"4",".","1">>
T43 == <<"4",".","3">>

WageOutcome(p, h) == [p |-> p, h |-> h, u |-> NoSeries]
LausOutcome(u) == [p |-> NoSeries, h |-> NoSeries, u |-> u]

Api(d, f) == [dflt |-> d, focus |-> f]

\* what the API holds for the wage series: dflt for every state but the focus one
WageApis ==
  { Api(WageOutcome(Row(T160000), NoSeries), WageOutcome(Row(T150000), NoSeries)),
    Api(WageOutcome(Row(T160000), NoSeries), WageOutcome(Row(<<>>), Row(T7201))),
    Api(WageOutcome(Row(T160000), NoSeries), WageOutcome(NoSeries, NoSeries)),
    Api(WageOutcome(Row(T160000), NoSeries), WageOutcome(NoData, Row(TDash))),
    Api(WageOutcome(NoSeries, Row(T7200)), WageOutcome(Row(TDash), Row(T7200))) }

\* what the API holds for the unemployment series
LausApis ==
  { Api(LausOutcome(Row(T41)), LausOutcome(Row(T43))),
    Api(LausOutcome(Row(T41)), LausOutcome(Row(<<>>))),
    Api(LausOutcome(Row(T41)), LausOutcome(Row(TDash))),
    Api(LausOutcome(Row(T41)), LausOutcome(NoSeries)),
    Api(LausOutcome(NoSeries), LausOutcome(NoData)) }

NoApi == [dflt |-> WageOutcome(NoSeries, NoSeries), focus |-> WageOutcome(NoSeries, NoSeries)]

\* datasets found on disk before the first run
FullRecord(u, w) == (UR :> u) @@ (WAGE :> w)
\* written by earlier runs of both phases; PR is outside the 49 states
DataBoth ==
  ("CA" :> FullRecord(Num(410), Num(15000000))) @@ ("TX" :> FullRecord(Null, Null))
    @@ ("PR" :> FullRecord(Num(560), Null))
\* written by the earlier variant of the unemployment script
DataLegacy ==
  ("CA" :> (("openings_rate" :> Num(410)) @@ (WAGE :> Null)))
    @@ ("AL" :> (("openings_rate" :> Null) @@ (WAGE :> Null)))
\* the same mapping in another layout than JSON.stringify(_, null, 2)
Compact(d) == [exists |-> TRUE, fmt |-> "compact", data |-> d]

InitFiles ==
  {NoFile, Stringify(DataBoth), Compact(DataBoth), Stringify(DataLegacy)}

\* ---------------------------------------------------------------- state
VARIABLES
  file,           \* data/latest.json
  mirror,         \* docs/data/latest.json
  docs,           \* the directory docs exists
  pc,             \* position of the running script; "idle", "exited" when none runs
  status,         \* exit code of the script, -1 while it runs
  orchPc,         \* position of fetch-bls.js: "off", "oews", "laus", "done", "failed"
  orchStatus,     \* exit code of fetch-bls.js
  orchLog,        \* the steps fetch-bls.js has run, with their exit codes
  chunkNo,        \* fetch-oews.js: index of the next primary chunk
  valuesPrimary,  \* fetch-oews.js: valuesPrimary
  missing,        \* fetch-oews.js: missing, as indices into STATES
  tier,           \* fetch-oews.js: index into FALLBACK_DATATYPES
  off,            \* fetch-oews.js: i of the fallback slice loop
  valuesFallback, \* fetch-oews.js: valuesFallback
  mergedSeries,   \* fetch-laus.js: mergedSeries
  reqs,           \* the POSTs of the running script: datatype and seriesid list
  before,         \* file and mirror when the script started
  cur,            \* the running (or last) script: phase, API content, how it ended
  prev,           \* the script run before it, when it ended by merging
  runs,           \* number of scripts launched
  origin,         \* latest.json before the first script
  call,           \* a function of the scripts applied on its own: argument and result
  app             \* app.js: the page's module state

vars == <<file, mirror, docs, pc, status, orchPc, orchStatus, orchLog, chunkNo,
          valuesPrimary, missing, tier, off, valuesFallback, mergedSeries, reqs,
          before, cur, prev, runs, origin, call, app>>

fsVars == <<file, mirror, docs>>
oewsVars == <<chunkNo, valuesPrimary, missing, tier, off, valuesFallback>>
orchVars == <<orchPc, orchStatus, orchLog>>
histVars == <<before, prev, runs, origin>>
\* not part of the pipeline's run: left alone by every step of the scripts
auxVars == <<call, app>>
\* everything the scripts and the orchestrator read or write
pipeVars == <<file, mirror, docs, pc, status, orchPc, orchStatus, orchLog, chunkNo,
              valuesPrimary, missing, tier, off, valuesFallback, mergedSeries, reqs,
              before, cur, prev, runs, origin>>

NoRun == [phase |-> "none", api |-> NoApi, end |-> "none", stage |-> "none", reply |-> ReplyOk]
NoPrev == [phase |-> "none", api |-> NoApi]
\* no function applied on its own; the page not loaded
NoCall == [fn |-> "none"]
NoApp == [pc |-> "off"]

Init ==
  /\ file \in InitFiles
  /\ mirror = NoFile
  /\ docs \in BOOLEAN
  /\ pc = "idle"
  /\ status = 0
  /\ orchPc = "off"
  /\ orchStatus = 0
  /\ orchLog = <<>>
  /\ chunkNo = 1
  /\ valuesPrimary = <<>>
  /\ missing = <<>>
  /\ tier = 1
  /\ off = 0
  /\ valuesFallback = <<>>
  /\ mergedSeries = <<>>
  /\ reqs = <<>>
  /\ before = [file |-> file, mirror |-> NoFile]
  /\ cur = NoRun
  /\ prev = NoPrev
  /\ runs = 0
  /\ origin = file
  /\ call = NoCall
  /\ app = NoApp

\* ---------------------------------------------------------------- launching
\* a script process starts: its locals are fresh
Launch(phase, a) ==
  /\ pc' = IF phase = "oews" THEN "oews_primary" ELSE "laus_fetch"
  /\ chunkNo' = 1
  /\ valuesPrimary' = <<>>
  /\ missing' = <<>>
  /\ tier' = 1
  /\ off' = 0
  /\ valuesFallback' = <<>>
  /\ mergedSeries' = <<>>
  /\ reqs' = <<>>
  /\ before' = [file |-> file, mirror |-> mirror]
  /\ prev' = IF cur.end = "merged" THEN [phase |-> cur.phase, api |-> cur.api] ELSE NoPrev
  /\ cur' = [phase |-> phase, api |-> a, end |-> "running", stage |-> "none", reply |-> ReplyOk]
  /\ runs' = runs + 1
  /\ status' = -1
  /\ UNCHANGED <<fsVars, origin>>

NoScriptRunning == pc \in {"idle", "exited"} /\ orchPc \notin {"oews", "laus"}

\* node scripts/fetch-oews.js run on its own
StartOews ==
  /\ NoScriptRunning
  /\ runs < MaxRuns
  /\ \E a \in WageApis : Launch("oews", a)
  /\ orchPc' = "off" /\ orchLog' = <<>> /\ UNCHANGED orchStatus
  /\ UNCHANGED auxVars

\* node scripts/fetch-laus.js run on its own
StartLaus ==
  /\ NoScriptRunning
  /\ runs < MaxRuns
  /\ \E a \in LausApis : Launch("laus", a)
  /\ orchPc' = "off" /\ orchLog' = <<>> /\ UNCHANGED orchStatus
  /\ UNCHANGED auxVars

\* the script ends with process.exit(1) from main().catch
Crash(stage, r) ==
  /\ pc' = "exited"
  /\ status' = 1
  /\ cur' = [cur EXCEPT !.end = "crashed", !.stage = stage, !.reply = r]

\* ---------------------------------------------------------------- wage phase
\* fetch-oews.js:77-88 one primary chunk answered; after the last one, missing
OewsPrimaryOk ==
  /\ pc = "oews_primary"
  /\ LET chunks == Chunks(PrimaryIds)
         chunk == chunks[chunkNo]
         res == FetchLatestOut(ReplySeries(cur.api, chunk, 1))
         vp == Assign(valuesPrimary, res)
         miss == MissingAfterPrimary(vp)
     IN  /\ reqs' = Append(reqs, [dt |-> PRIMARY_DATATYPE, ids |-> chunk])
         /\ valuesPrimary' = vp
         /\ IF chunkNo < Len(chunks)
            THEN /\ chunkNo' = chunkNo + 1
                 /\ UNCHANGED <<pc, missing>>
            ELSE /\ missing' = miss
                 /\ pc' = IF Len(miss) > 0 /\ Len(FALLBACK_DATATYPES) > 0
                          THEN "oews_fallback" ELSE "oews_merge"
                 /\ UNCHANGED chunkNo
  /\ UNCHANGED <<fsVars, status, orchVars, tier, off, valuesFallback, mergedSeries,
                 histVars, cur>>
  /\ UNCHANGED auxVars

\* fetch-oews.js:79, 53-55, 138-141 a primary call throws: nothing catches it
OewsPrimaryThrows ==
  /\ pc = "oews_primary"
  /\ \E r \in Replies :
       /\ CallThrows(r)
       /\ Crash("primary", r)
  /\ reqs' = Append(reqs, [dt |-> PRIMARY_DATATYPE, ids |-> Chunks(PrimaryIds)[chunkNo]])
  /\ UNCHANGED <<fsVars, orchVars, oewsVars, mergedSeries, histVars>>
  /\ UNCHANGED auxVars

\* fetch-oews.js:93-107 one fallback slice answered; after the last slice of a
\* datatype the filled states leave missing
OewsFallbackOk ==
  /\ pc = "oews_fallback"
  /\ LET dt == FALLBACK_DATATYPES[tier]
         ids == FallbackIds(missing, dt)
         slice == Slice(ids, off, ChunkSize)
         res == FetchLatestOut(ReplySeries(cur.api, slice, 1))
         vf == Assign(valuesFallback, res)
         miss == StillMissing(missing, vf, dt)
     IN  /\ reqs' = Append(reqs, [dt |-> dt, ids |-> slice])
         /\ valuesFallback' = vf
         /\ IF off + ChunkSize < Len(ids)
            THEN /\ off' = off + ChunkSize
                 /\ UNCHANGED <<pc, missing, tier>>
            ELSE /\ missing' = miss
                 /\ IF Len(miss) = 0 \/ tier = Len(FALLBACK_DATATYPES)
                    THEN pc' = "oews_merge" /\ UNCHANGED <<tier, off>>
                    ELSE tier' = tier + 1 /\ off' = 0 /\ UNCHANGED pc
  /\ UNCHANGED <<fsVars, status, orchVars, chunkNo, valuesPrimary, mergedSeries,
                 histVars, cur>>
  /\ UNCHANGED auxVars

\* fetch-oews.js:96, 53-55, 138-141 a fallback call throws: nothing catches it
OewsFallbackThrows ==
  /\ pc = "oews_fallback"
  /\ \E r \in Replies :
       /\ CallThrows(r)
       /\ Crash("fallback", r)
  /\ reqs' = Append(reqs, [dt |-> FALLBACK_DATATYPES[tier],
                           ids |-> Slice(FallbackIds(missing, FALLBACK_DATATYPES[tier]),
                                         off, ChunkSize)])
  /\ UNCHANGED <<fsVars, orchVars, oewsVars, mergedSeries, histVars>>
  /\ UNCHANGED auxVars

\* fetch-oews.js:111-128 read, merge, write latest.json
OewsWrite ==
  /\ pc = "oews_merge"
  /\ file' = Stringify(WageMerge(ReadExisting(file), valuesPrimary, valuesFallback))
  /\ pc' = "oews_mirror"
  /\ UNCHANGED <<mirror, docs, status, orchVars, oewsVars, mergedSeries, reqs,
                 histVars, cur>>
  /\ UNCHANGED auxVars

\* variant of Mirrored: the copy is taken of the file as it was before the
\* write (the mirror block moved above writeFileSync)
Mirrored_Stale == IF docs THEN before.file ELSE mirror

\* fs.existsSync("docs") ? copyFileSync(OUT_FILE, DOCS_OUT)
Mirrored == IF docs THEN file ELSE mirror

\* fetch-oews.js:131-136 mirror, then the script ends normally
OewsMirror ==
  /\ pc = "oews_mirror"
  /\ mirror' = Mirrored
  /\ pc' = "exited"
  /\ status' = 0
  /\ cur' = [cur EXCEPT !.end = "merged"]
  /\ UNCHANGED <<file, docs, orchVars, oewsVars, mergedSeries, reqs, histVars>>
  /\ UNCHANGED auxVars

\* ---------------------------------------------------------------- unemployment phase
\* fetch-laus.js:54 the single request is answered
LausFetchOk ==
  /\ pc = "laus_fetch"
  /\ reqs' = Append(reqs, [dt |-> <<"0","3">>, ids |-> AllSeriesIds])
  /\ mergedSeries' = ReplySeries(cur.api, AllSeriesIds, 1)
  /\ pc' = "laus_merge"
  /\ UNCHANGED <<fsVars, status, orchVars, oewsVars, histVars, cur>>
  /\ UNCHANGED auxVars

\* fetch-laus.js:55-70 the request throws: preserve on quota, else rethrow
LausFetchThrows ==
  /\ pc = "laus_fetch"
  /\ reqs' = Append(reqs, [dt |-> <<"0","3">>, ids |-> AllSeriesIds])
  /\ \E r \in Replies :
       /\ CallThrows(r)
       /\ IF LausTreatsAsQuota(r)
          THEN /\ pc' = "laus_preserve"
               /\ cur' = [cur EXCEPT !.stage = "primary", !.reply = r]
               /\ UNCHANGED status
          ELSE Crash("primary", r)
  /\ UNCHANGED <<fsVars, orchVars, oewsVars, mergedSeries, histVars>>
  /\ UNCHANGED auxVars

\* fetch-laus.js:60-62 rewrite the existing dataset
LausPreserveWrite ==
  /\ pc = "laus_preserve"
  /\ file' = Stringify(ReadExisting(file))
  /\ pc' = "laus_preserve_mirror"
  /\ UNCHANGED <<mirror, docs, status, orchVars, oewsVars, mergedSeries, reqs,
                 histVars, cur>>
  /\ UNCHANGED auxVars

\* fetch-laus.js:63-67 mirror, return
LausPreserveMirror ==
  /\ pc = "laus_preserve_mirror"
  /\ mirror' = Mirrored
  /\ pc' = "exited"
  /\ status' = 0
  /\ cur' = [cur EXCEPT !.end = "preserved"]
  /\ UNCHANGED <<file, docs, orchVars, oewsVars, mergedSeries, reqs, histVars>>
  /\ UNCHANGED auxVars

\* fetch-laus.js:73-96 read, merge, write latest.json
LausWrite ==
  /\ pc = "laus_merge"
  /\ file' = Stringify(LausMerge(ReadExisting(file), mergedSeries))
  /\ pc' = "laus_mirror"
  /\ UNCHANGED <<mirror, docs, status, orchVars, oewsVars, mergedSeries, reqs,
                 histVars, cur>>
  /\ UNCHANGED auxVars

\* fetch-laus.js:99-104 mirror, then the script ends normally
LausMirror ==
  /\ pc = "laus_mirror"
  /\ mirror' = Mirrored
  /\ pc' = "exited"
  /\ status' = 0
  /\ cur' = [cur EXCEPT !.end = "merged"]
  /\ UNCHANGED <<file, docs, orchVars, oewsVars, mergedSeries, reqs, histVars>>
  /\ UNCHANGED auxVars

\* ---------------------------------------------------------------- orchestrator
\* fetch-bls.js main: run("OEWS (swdev_wage)", ...)
OrchStart ==
  /\ NoScriptRunning
  /\ runs + 2 <= MaxRuns
  /\ \E a \in WageApis : Launch("oews", a)
  /\ orchPc' = "oews"
  /\ orchLog' = <<>>
  /\ UNCHANGED orchStatus
  /\ UNCHANGED auxVars

\* fetch-bls.js run: res.status !== 0 throws
StepFailed(code) == code # 0

\* fetch-bls.js: the OEWS child has exited; throw, or run LAUS
OrchAfterOews ==
  /\ orchPc = "oews"
  /\ pc = "exited"
  /\ orchLog' = Append(orchLog, <<"oews", status>>)
  /\ IF StepFailed(status)
     THEN /\ orchPc' = "failed"
          /\ orchStatus' = 1
          /\ UNCHANGED <<fsVars, pc, status, oewsVars, mergedSeries, reqs, histVars, cur>>
     ELSE /\ \E a \in LausApis : Launch("laus", a)
          /\ orchPc' = "laus"
          /\ UNCHANGED orchStatus
  /\ UNCHANGED auxVars

\* fetch-bls.js: the LAUS child has exited; throw, or finish
OrchAfterLaus ==
  /\ orchPc = "laus"
  /\ pc = "exited"
  /\ orchLog' = Append(orchLog, <<"laus", status>>)
  /\ orchPc' = IF StepFailed(status) THEN "failed" ELSE "done"
  /\ orchStatus' = IF StepFailed(status) THEN 1 ELSE 0
  /\ UNCHANGED <<fsVars, pc, status, oewsVars, mergedSeries, reqs, histVars, cur>>
  /\ UNCHANGED auxVars

Next ==
  \/ StartOews \/ StartLaus
  \/ OewsPrimaryOk \/ OewsPrimaryThrows
  \/ OewsFallbackOk \/ OewsFallbackThrows
  \/ OewsWrite \/ OewsMirror
  \/ LausFetchOk \/ LausFetchThrows
  \/ LausPreserveWrite \/ LausPreserveMirror
  \/ LausWrite \/ LausMirror
  \/ OrchStart \/ OrchAfterOews \/ OrchAfterLaus

Spec == Init /\ [][Next]_vars

\* ---------------------------------------------------------------- properties
\* the mapping latest.json held when the running (or last) script started
BeforeData == ReadExisting(before.file)
\* the mapping latest.json holds now
FileData == ReadExisting(file)

\* rec.field read from a dataset: Undef when the key or the field is absent
FieldOf(d, k, f) == IF k \in DOMAIN d /\ f \in DOMAIN d[k] THEN d[k][f] ELSE Undef

\* the field a phase is not responsible for
OtherField(phase) == IF phase = "oews" THEN UR ELSE WAGE

\* the script has ended after merging and writing
EndedMerged == pc = "exited" /\ cur.end = "merged"

\* the script ended (or is about to preserve) after a call threw
CallFailed == cur.stage # "none"

\* the API holds a series with a non-empty latest value
HasValue(o) == o.in /\ Len(o.data) > 0 /\ o.data[1].value # <<>>

\* the API returned no series at all for state abbr in the phase of cur
NoSeriesReturned(abbr) ==
  IF cur.phase = "oews"
  THEN ~Outcome(cur.api, abbr, "p").in /\ ~Outcome(cur.api, abbr, "h").in
  ELSE ~Outcome(cur.api, abbr, "u").in

\* C1: a phase run leaves the other phase's field of every region as it was:
\* for a region with a record in the prior dataset the field is identical
\* (value, null or absence), and for a region without one no number appears
\* in it (the wage phase creates the record with the field null).
C1_PhaseKeepsOtherField ==
  cur.phase # "none" =>
    \A k \in Abbrs :
      LET f == OtherField(cur.phase)
      IN  IF k \in DOMAIN BeforeData
          THEN FieldOf(FileData, k, f) = FieldOf(BeforeData, k, f)
          ELSE FieldOf(FileData, k, f) \in {Undef, Null}

\* C1 witness: CA = {4.1, 150000} updated by the unemployment phase with 4.3
C1_Witness ==
  /\ EndedMerged /\ cur.phase = "laus"
  /\ FieldOf(BeforeData, "CA", UR) = Num(410)
  /\ FieldOf(BeforeData, "CA", WAGE) = Num(15000000)
  /\ FieldOf(FileData, "CA", UR) = Num(430)
  /\ FieldOf(FileData, "CA", WAGE) = Num(15000000)

\* C2: when the primary call of a phase is rejected with the quota signal, the
\* dataset file after the phase is byte-identical to the file before it.
C2_QuotaLeavesFileIdentical ==
  (pc = "exited" /\ cur.stage = "primary" /\ IsQuotaReply(cur.reply)) =>
    file = before.file

\* C3: a quota rejection in either phase does not abort the run: the phase
\* exits with code 0 and the orchestrator does not fail on it.
C3_QuotaDoesNotAbort ==
  (pc = "exited" /\ CallFailed /\ IsQuotaReply(cur.reply)) =>
    /\ status = 0
    /\ orchPc # "failed"

\* C4: a failure that is not a quota rejection is fatal: the phase exits
\* non-zero having written neither the dataset nor the mirror, the orchestrator
\* starts no later phase and ends non-zero.
C4_NonQuotaFailureIsFatal ==
  /\ (pc = "exited" /\ CallFailed /\ ~IsQuotaReply(cur.reply)) =>
       /\ status = 1
       /\ file = before.file
       /\ mirror = before.mirror
  /\ \A i \in DOMAIN orchLog :
       orchLog[i][2] # 0 => i = Len(orchLog) /\ orchPc = "failed" /\ orchStatus = 1

\* C5: merging is idempotent: a phase run again right after a run of the same
\* phase, with the same API content, leaves the dataset file as that run wrote it.
C5_MergeIdempotent ==
  (EndedMerged /\ prev.phase = cur.phase /\ prev.api = cur.api) =>
    file = before.file

\* C5 witness: the wage phase run twice with a fallback conversion for CA
C5_Witness ==
  /\ EndedMerged /\ prev.phase = "oews" /\ cur.phase = "oews" /\ prev.api = cur.api
  /\ origin = NoFile
  /\ FieldOf(FileData, "CA", WAGE) = Num(14978100)
  /\ FieldOf(FileData, "AL", WAGE) = Num(16000000)

\* a record of the dataset that the current run created or changed
Touched(k) ==
  /\ k \in DOMAIN FileData
  /\ k \notin DOMAIN BeforeData \/ FileData[k] # BeforeData[k]

\* C6: starting from a missing file, every record a run has touched has both
\* fields, each a number or null; a record created by the run has both.
C6_TouchedRecordsHaveBothFields ==
  (origin = NoFile /\ cur.phase # "none") =>
    \A k \in Abbrs :
      Touched(k) =>
        /\ {UR, WAGE} \subseteq DOMAIN FileData[k]
        /\ \A f \in {UR, WAGE} : FileData[k][f][1] \in {"num", "null"}

\* C7: entries whose key is outside the 49 states, or is a state for which the
\* API returned no series, are written back unchanged.
C7_UntouchedKeysPassThrough ==
  cur.phase # "none" =>
    \A k \in DOMAIN BeforeData :
      (k \notin Abbrs \/ NoSeriesReturned(k)) =>
        k \in DOMAIN FileData /\ FileData[k] = BeforeData[k]

\* C7 witness: the unemployment phase rewrote the file, changed TX, and kept PR
\* (outside the table) and CA (no series returned)
C7_Witness ==
  /\ EndedMerged /\ cur.phase = "laus"
  /\ ~Outcome(cur.api, "CA", "u").in
  /\ {"CA", "PR", "TX"} \subseteq DOMAIN BeforeData
  /\ FileData["PR"] = BeforeData["PR"]
  /\ FileData["CA"] = BeforeData["CA"]
  /\ FileData["TX"] # BeforeData["TX"]

\* C8: every POST carries at most 25 series identifiers.
C8_BatchWithinLimit ==
  \A i \in DOMAIN reqs : Len(reqs[i].ids) <= ChunkSize

\* C9: a quota rejection during a fallback query is not escalated: the wage
\* phase exits with code 0 and has written the primary values.
C9_FallbackQuotaStillWrites ==
  (pc = "exited" /\ cur.phase = "oews" /\ cur.stage = "fallback"
     /\ IsQuotaReply(cur.reply)) =>
    /\ status = 0
    /\ \A i \in 1..NumStates :
         LET v == Get(valuesPrimary, PrimaryIds[i])
         IN  IsFinite(v) => FieldOf(FileData, STATES[i][1], WAGE) = v

\* position of a datatype in FALLBACK_DATATYPES, 0 for the primary datatype
TierOf(dt) ==
  IF \E t \in DOMAIN FALLBACK_DATATYPES : FALLBACK_DATATYPES[t] = dt
  THEN CHOOSE t \in DOMAIN FALLBACK_DATATYPES : FALLBACK_DATATYPES[t] = dt
  ELSE 0

\* the state (index into STATES) an identifier of a request belongs to
RegionOfId(id) == CatalogEntry(id)[1]

\* the API answered the primary query of state i with a value
GotPrimary(i) == HasValue(Outcome(cur.api, STATES[i][1], "p"))
\* the API answers the hourly query of state i with a value
GotHourly(i) == HasValue(Outcome(cur.api, STATES[i][1], "h"))

\* the identifiers of a request, as a set
IdSet(req) == {req.ids[n] : n \in DOMAIN req.ids}

\* the fallback datatype of tier t resolved state r (the API holds a value)
ResolvedByTier(t, r) == FALLBACK_DATATYPES[t] = HOURLY_DATATYPE /\ GotHourly(r)

\* C10: fallback queries go only to still-missing regions: never to a region
\* that got a primary value, never to a region an earlier tier resolved, each
\* region at most once per tier, tiers in declared order after the primary
\* queries, and no fallback query at all when no region is missing.
C10_FallbackOnlyForMissing ==
  cur.phase = "oews" =>
    /\ \A i \in DOMAIN reqs :
         TierOf(reqs[i].dt) > 0 =>
           /\ Len(reqs[i].ids) > 0
           /\ Cardinality(IdSet(reqs[i])) = Len(reqs[i].ids)
           /\ \A n \in DOMAIN reqs[i].ids :
                /\ RegionOfId(reqs[i].ids[n]) # 0
                /\ ~GotPrimary(RegionOfId(reqs[i].ids[n]))
    /\ \A i, j \in DOMAIN reqs :
         i < j =>
           LET ti == TierOf(reqs[i].dt)
               tj == TierOf(reqs[j].dt)
           IN  /\ ti <= tj
               /\ (ti > 0 /\ ti = tj) => IdSet(reqs[i]) \cap IdSet(reqs[j]) = {}
               /\ (ti > 0 /\ ti < tj) =>
                    \A m \in DOMAIN reqs[j].ids :
                      ~ResolvedByTier(ti, RegionOfId(reqs[j].ids[m]))
    /\ (\A r \in 1..NumStates : GotPrimary(r)) =>
         \A i \in DOMAIN reqs : TierOf(reqs[i].dt) = 0

\* C10 witness: every state but CA got a primary value, and the one fallback
\* query asked for CA alone
C10_Witness ==
  /\ cur.phase = "oews" /\ pc = "oews_merge"
  /\ \A r \in 1..NumStates : GotPrimary(r) <=> STATES[r][1] # "CA"
  /\ Len(reqs) = 3
  /\ reqs[3].dt = HOURLY_DATATYPE
  /\ Len(reqs[3].ids) = 1
  /\ STATES[RegionOfId(reqs[3].ids[1])][1] = "CA"

\* the fallback datatype of tier t was queried for state r in this run
AskedTier(t, r) ==
  \E i \in DOMAIN reqs :
    /\ reqs[i].dt = FALLBACK_DATATYPES[t]
    /\ \E n \in DOMAIN reqs[i].ids : RegionOfId(reqs[i].ids[n]) = r

\* the number the API holds for a series, NaN when its text is not a number
ApiNumber(o) == IF HasValue(o) THEN NumberOf(o.data[1].value) ELSE NaN

\* the wage the claim expects in the record of state r after a wage merge
ExpectedWage(r) ==
  LET abbr == STATES[r][1]
      p == ApiNumber(Outcome(cur.api, abbr, "p"))
      h == ApiNumber(Outcome(cur.api, abbr, "h"))
      tiers == {t \in DOMAIN FALLBACK_DATATYPES : AskedTier(t, r)}
  IN  IF IsFinite(p) THEN p
      ELSE IF tiers # {} /\ IsFinite(h)
           THEN Num(((h[2] * 2080 + 50) \div 100) * 100)
           ELSE IF abbr \in DOMAIN BeforeData
                THEN FieldOf(BeforeData, abbr, WAGE)
                ELSE Null

\* C11: after a wage merge the wage of every state is the primary (annual)
\* value when the primary query returned one; otherwise the hourly value a
\* fallback tier returned, times 2080 and rounded to the nearest integer;
\* with neither, the wage stored before (null in a record created now).
C11_WageFromPrimaryElseConverted ==
  (cur.phase = "oews" /\ pc \in {"oews_mirror", "exited"} /\ cur.end # "crashed") =>
    \A r \in 1..NumStates : FieldOf(FileData, STATES[r][1], WAGE) = ExpectedWage(r)

\* C11 witness: no primary value anywhere, hourly 72.00 gives 149760 for AL,
\* while CA, whose primary value is the text "-", keeps its stored 150000
C11_Witness ==
  /\ EndedMerged /\ cur.phase = "oews"
  /\ ~HasValue(Outcome(cur.api, "AL", "p"))
  /\ Outcome(cur.api, "AL", "h") = Row(T7200)
  /\ FieldOf(FileData, "AL", WAGE) = Num(14976000)
  /\ FieldOf(BeforeData, "CA", WAGE) = Num(15000000)
  /\ FieldOf(FileData, "CA", WAGE) = Num(15000000)

\* the unemployment script is on, or ended by, its preserve-and-continue path
OnPreservePath ==
  pc \in {"laus_preserve", "laus_preserve_mirror"} \/ cur.end = "preserved"

\* C12: a failed call of the unemployment phase is taken as a quota hit (and
\* handled by preserve-and-continue) exactly when the reply is a daily
\* threshold rejection; any other non-success reply and any transport error
\* is a generic failure.
C12_QuotaClassifiedExactly ==
  (cur.phase = "laus" /\ CallFailed) => (OnPreservePath <=> IsQuotaReply(cur.reply))

\* ---------------------------------------------------------------- fetchLatest on its own
\* longest Results.series of a drawn response
MaxSeries == 2

\* the scripts and the orchestrator have not run
Quiescent ==
  /\ file = NoFile /\ mirror = NoFile /\ docs = FALSE
  /\ pc = "idle" /\ status = 0
  /\ orchPc = "off" /\ orchStatus = 0 /\ orchLog = <<>>
  /\ chunkNo = 1 /\ valuesPrimary = <<>> /\ missing = <<>>
  /\ tier = 1 /\ off = 0 /\ valuesFallback = <<>>
  /\ mergedSeries = <<>> /\ reqs = <<>>
  /\ before = [file |-> NoFile, mirror |-> NoFile]
  /\ cur = NoRun /\ prev = NoPrev /\ runs = 0 /\ origin = NoFile

\* fetch-oews.js:44-62 fetchLatest: throws on a failed call, else the mapping
FetchLatest(r, series) ==
  IF CallThrows(r)
  THEN [threw |-> TRUE, out |-> <<>>]
  ELSE [threw |-> FALSE, out |-> FetchLatestOut(series)]

\* series identifiers of the drawn responses: the annual wage of CA and of TX
FetchIds ==
  { makeSeriesIdFromArea(areaCodeFromFips(<<"0","6">>), PRIMARY_DATATYPE),
    makeSeriesIdFromArea(areaCodeFromFips(<<"4","8">>), PRIMARY_DATATYPE) }

\* the data rows of a series: none, an empty value, a number, a dash, and an
\* empty latest row in front of an older number
FetchRows ==
  { <<>>,
    << [value |-> <<>>] >>,
    << [value |-> T150000] >>,
    << [value |-> TDash] >>,
    << [value |-> <<>>], [value |-> T160000] >> }

SeriesItems == [seriesID : FetchIds, data : FetchRows]

\* Results.series of a response: up to MaxSeries items, identifiers may repeat
SeriesLists == UNION {[1..n -> SeriesItems] : n \in 0..MaxSeries}

FetchInit ==
  /\ Quiescent
  /\ app = NoApp
  /\ \E r \in Replies, s \in SeriesLists :
       call = [fn |-> "fetchLatest", reply |-> r, series |-> s, done |-> FALSE,
               ret |-> [threw |-> FALSE, out |-> <<>>]]

\* fetchLatest(seriesIds, key) applied to the drawn response
FetchApply ==
  /\ call.fn = "fetchLatest" /\ ~call.done
  /\ call' = [call EXCEPT !.done = TRUE, !.ret = FetchLatest(call.reply, call.series)]
  /\ UNCHANGED <<pipeVars, app>>

FetchNext == FetchApply

SpecFetch == FetchInit /\ [][FetchNext]_vars

\* series i of the response has a latest observation with a non-empty value
SeriesHasValue(series, i) ==
  /\ Len(series[i].data) > 0
  /\ series[i].data[1].value # <<>>

\* C13: for a successful response fetchLatest does not fail, and its result
\* holds an identifier exactly when the response has a series of that
\* identifier whose latest observation has a non-empty value.
C13_FetchLatestKeepsNonEmpty ==
  (call.fn = "fetchLatest" /\ call.done /\ call.reply = ReplyOk) =>
    /\ ~call.ret.threw
    /\ DOMAIN call.ret.out =
         {call.series[i].seriesID :
            i \in {j \in 1..Len(call.series) : SeriesHasValue(call.series, j)}}

\* C13 witness: one series with a number and one with an empty value; only
\* the first is in the result
C13_Witness ==
  /\ call.fn = "fetchLatest" /\ call.done /\ call.reply = ReplyOk
  /\ Len(call.series) = 2
  /\ call.series[1].data = << [value |-> T150000] >>
  /\ call.series[2].data = << [value |-> <<>>] >>
  /\ call.series[1].seriesID # call.series[2].seriesID
  /\ DOMAIN call.ret.out = {call.series[1].seriesID}
  /\ call.ret.out[call.series[1].seriesID] = Num(15000000)

\* C14: when a phase has ended without failure and the directory docs exists,
\* the mirror is byte-identical to the dataset file; the mirror changes only
\* as the last step of a phase, after the dataset file was written; and
\* without the directory no mirror exists.
C14_MirrorIsCopyOfFile ==
  /\ (pc = "exited" /\ status = 0 /\ docs) => (mirror.exists /\ mirror = file)
  /\ mirror # before.mirror => (pc = "exited" /\ status = 0 /\ mirror = file)
  /\ ~docs => ~mirror.exists

\* C14 witness: a merge changed the file and the mirror was refreshed from it
C14_Witness ==
  /\ EndedMerged /\ docs
  /\ file # before.file
  /\ mirror # before.mirror
  /\ mirror = file

\* ---------------------------------------------------------------- series identifiers on their own
\* the two-digit codes of the table
TableCodes == {STATES[i][2] : i \in 1..NumStates}
\* texts that are no code of the table: Puerto Rico, an unused code, one
\* digit, the empty text, an abbreviation
ForeignCodes == { <<"7","2">>, <<"9","9">>, <<"6">>, <<>>, <<"C","A">> }
\* the datatypes the wage phase queries
KnownDatatypes == {PRIMARY_DATATYPE} \cup {FALLBACK_DATATYPES[t] : t \in DOMAIN FALLBACK_DATATYPES}
\* texts that are no datatype code
ForeignDatatypes == { <<"4">>, <<>> }

\* the outcome of building an identifier: template literals never throw
Built(id) == [threw |-> FALSE, id |-> id]
NotBuilt == [threw |-> FALSE, id |-> <<"?">>]

IdsInit ==
  /\ Quiescent
  /\ app = NoApp
  /\ \E f \in TableCodes \cup ForeignCodes, d \in KnownDatatypes \cup ForeignDatatypes :
       call = [fn |-> "seriesId", fips |-> f, dt |-> d,
               wageDone |-> FALSE, wage |-> NotBuilt,
               lausDone |-> FALSE, laus |-> NotBuilt]

\* fetch-oews.js:69-71 makeSeriesIdFromArea(areaCodeFromFips(fips), datatype)
BuildWageId ==
  /\ call.fn = "seriesId" /\ ~call.wageDone
  /\ call' = [call EXCEPT !.wageDone = TRUE,
                          !.wage = Built(makeSeriesIdFromArea(areaCodeFromFips(call.fips), call.dt))]
  /\ UNCHANGED <<pipeVars, app>>

\* fetch-laus.js:49 buildSeriesId(fips2)
BuildLausId ==
  /\ call.fn = "seriesId" /\ ~call.lausDone
  /\ call' = [call EXCEPT !.lausDone = TRUE, !.laus = Built(buildSeriesId(call.fips))]
  /\ UNCHANGED <<pipeVars, app>>

IdsNext == BuildWageId \/ BuildLausId

SpecIds == IdsInit /\ [][IdsNext]_vars

C16_UnknownCodeFails ==
  call.fn = "seriesId" =>
    /\ (call.wageDone /\ (call.fips \notin TableCodes \/ call.dt \notin KnownDatatypes)) =>
         call.wage.threw
    /\ (call.lausDone /\ call.fips \notin TableCodes) => call.laus.threw

\* the field the phase of cur is responsible for
OwnField(phase) == IF phase = "oews" THEN WAGE ELSE UR

\* the run of cur obtained a usable number for state r
ObtainedValue(r) ==
  LET abbr == STATES[r][1]
  IN  IF cur.phase = "oews"
      THEN \/ IsFinite(ApiNumber(Outcome(cur.api, abbr, "p")))
           \/ /\ \E t \in DOMAIN FALLBACK_DATATYPES : AskedTier(t, r)
              /\ IsFinite(ApiNumber(Outcome(cur.api, abbr, "h")))
      ELSE LET u == Outcome(cur.api, abbr, "u")
           IN  HasValue(u) /\ IsFinite(ParseFloat(u.data[1].value))

\* C17: after a phase has merged and exited, every tracked region for which
\* the run obtained no value has a record in which the phase's field is
\* present, and null unless a number was stored there before.
C17_NoValueIsExplicitNull ==
  EndedMerged =>
    \A r \in 1..NumStates :
      LET abbr == STATES[r][1]
          f == OwnField(cur.phase)
      IN  ~ObtainedValue(r) =>
            /\ abbr \in DOMAIN FileData
            /\ f \in DOMAIN FileData[abbr]
            /\ ~IsFinite(FieldOf(BeforeData, abbr, f)) => FileData[abbr][f] = Null

\* ---------------------------------------------------------------- order of execution
\* The orchestrator, the script it spawned and the network as three parties:
\* fetch-bls.js blocks in spawnSync, a script blocks in await fetchLatest, the
\* network answers any request in flight.  Data is left out; call holds the
\* positions, the requests in flight and the log of events.

\* runs of fetch-bls.js in a behaviour (the scheduled job runs it again)
MaxOrchRuns == 2

\* how many states the primary queries may leave without a value
MissingCounts == {0, 1, 26}

Ev(ev, phase, n) == [ev |-> ev, phase |-> phase, n |-> n]

\* number of requests of one loop of a script
NumBatches(phase, stage, nfb) ==
  IF phase = "laus" THEN 1
  ELSE IF stage = "primary" THEN Len(Chunks(PrimaryIds))
  ELSE (nfb + ChunkSize - 1) \div ChunkSize

\* variant of AfterSend: the request is not awaited, the loop goes on at once
\* (chunks.map(c => fetchLatest(c, key)) collected with Promise.all)
AfterSend_NotAwaited == "issue"

\* fetch-oews.js:79,96 fetch-laus.js:54 await fetchLatest(...): main() is
\* suspended until the request settles
AfterSend == "await"

SeqInit ==
  /\ Quiescent
  /\ app = NoApp
  /\ call = [fn |-> "sequence", orch |-> "start", child |-> "none", cpc |-> "none",
             stage |-> "none", k |-> 0, nfb |-> 0, net |-> {}, code |-> -1,
             round |-> 0, log |-> <<>>]

\* spawnSync(process.execPath, [file]): a fresh script process
SeqSpawned(c, phase) ==
  [c EXCEPT !.child = phase, !.cpc = "issue", !.stage = "primary", !.k = 1,
            !.nfb = 0, !.code = -1, !.log = Append(@, Ev("spawn", phase, 0))]

\* fetch-bls.js main: run("OEWS (swdev_wage)", ...)
SeqOrchStart ==
  /\ call.fn = "sequence" /\ call.orch \in {"start", "done", "failed"}
  /\ call.round < MaxOrchRuns
  /\ call' = [SeqSpawned(call, "oews") EXCEPT !.orch = "wait_oews", !.round = @ + 1]
  /\ UNCHANGED <<pipeVars, app>>

\* a script posts the next batch of its loop
SeqIssue ==
  /\ call.fn = "sequence" /\ call.cpc = "issue"
  /\ call.k <= NumBatches(call.child, call.stage, call.nfb)
  /\ call' = [call EXCEPT
                !.net = @ \cup {[phase |-> call.child, stage |-> call.stage, k |-> call.k]},
                !.k = @ + 1,
                !.cpc = AfterSend,
                !.log = Append(@, Ev("send", call.child, call.k))]
  /\ UNCHANGED <<pipeVars, app>>

\* the request in flight is answered; the awaiting script goes on with its
\* loop, with the fallback loop, or with the merge
SeqReplyOk ==
  /\ call.fn = "sequence" /\ call.cpc = "await"
  /\ \E q \in call.net, m \in MissingCounts :
       LET c == [call EXCEPT !.net = @ \ {q},
                             !.log = Append(@, Ev("recv", q.phase, q.k))]
       IN  call' =
             IF call.k <= NumBatches(call.child, call.stage, call.nfb)
             THEN [c EXCEPT !.cpc = "issue"]
             ELSE IF call.child = "oews" /\ call.stage = "primary"
                     /\ m > 0 /\ Len(FALLBACK_DATATYPES) > 0
                  THEN [c EXCEPT !.cpc = "issue", !.stage = "fallback", !.k = 1, !.nfb = m]
                  ELSE [c EXCEPT !.cpc = "merge"]
  /\ UNCHANGED <<pipeVars, app>>

\* the request in flight fails: the unemployment script preserves on what it
\* takes for quota, anything else ends the script with exit code 1
SeqReplyThrows ==
  /\ call.fn = "sequence" /\ call.cpc = "await"
  /\ \E q \in call.net, r \in Replies :
       /\ CallThrows(r)
       /\ LET c == [call EXCEPT !.net = @ \ {q},
                                !.log = Append(@, Ev("recv", q.phase, q.k))]
          IN  call' =
                IF call.child = "laus" /\ LausTreatsAsQuota(r)
                THEN [c EXCEPT !.cpc = "merge"]
                ELSE [c EXCEPT !.cpc = "exited", !.code = 1,
                               !.log = Append(@, Ev("exit", call.child, 1))]
  /\ UNCHANGED <<pipeVars, app>>

\* a script reads latest.json
SeqRead ==
  /\ call.fn = "sequence" /\ call.cpc = "merge"
  /\ call' = [call EXCEPT !.cpc = "write", !.log = Append(@, Ev("read", call.child, 0))]
  /\ UNCHANGED <<pipeVars, app>>

\* a script writes latest.json
SeqWrite ==
  /\ call.fn = "sequence" /\ call.cpc = "write"
  /\ call' = [call EXCEPT !.cpc = "mirror", !.log = Append(@, Ev("write", call.child, 0))]
  /\ UNCHANGED <<pipeVars, app>>

\* a script mirrors and ends normally
SeqExit ==
  /\ call.fn = "sequence" /\ call.cpc = "mirror"
  /\ call' = [call EXCEPT !.cpc = "exited", !.code = 0,
                          !.log = Append(@, Ev("exit", call.child, 0))]
  /\ UNCHANGED <<pipeVars, app>>

\* fetch-bls.js run: spawnSync has returned for OEWS; throw, or run LAUS
SeqOrchAfterOews ==
  /\ call.fn = "sequence" /\ call.orch = "wait_oews" /\ call.cpc = "exited"
  /\ call' = IF StepFailed(call.code)
             THEN [call EXCEPT !.orch = "failed"]
             ELSE [SeqSpawned(call, "laus") EXCEPT !.orch = "wait_laus"]
  /\ UNCHANGED <<pipeVars, app>>

\* fetch-bls.js run: spawnSync has returned for LAUS; throw, or finish
SeqOrchAfterLaus ==
  /\ call.fn = "sequence" /\ call.orch = "wait_laus" /\ call.cpc = "exited"
  /\ call' = [call EXCEPT !.orch = IF StepFailed(call.code) THEN "failed" ELSE "done"]
  /\ UNCHANGED <<pipeVars, app>>

SeqNext ==
  \/ SeqOrchStart \/ SeqIssue \/ SeqReplyOk \/ SeqReplyThrows
  \/ SeqRead \/ SeqWrite \/ SeqExit
  \/ SeqOrchAfterOews \/ SeqOrchAfterLaus

SpecSeq == SeqInit /\ [][SeqNext]_vars

\* number of events of kind ev among the first n of the log
CountEv(log, ev, n) == Cardinality({i \in 1..n : log[i].ev = ev})

\* C18: execution is strictly sequential: at most one request is in flight,
\* a batch is sent only when every earlier one has been answered, every
\* event of the second phase comes after the first phase of that run wrote
\* and exited with code 0, and no event of the other phase falls between a
\* phase's read and the write that follows it.
C18_StrictlySequential ==
  call.fn = "sequence" =>
    LET log == call.log
    IN  /\ Cardinality(call.net) <= 1
        /\ call.cpc \in {"merge", "write", "mirror", "exited"} => call.net = {}
        /\ \A i \in DOMAIN log :
             log[i].ev = "send" =>
               CountEv(log, "send", i - 1) = CountEv(log, "recv", i - 1)
        /\ \A i \in DOMAIN log :
             log[i].phase = "laus" =>
               \E w, x \in 1..(i - 1) :
                 /\ w < x
                 /\ log[w] = Ev("write", "oews", 0)
                 /\ log[x] = Ev("exit", "oews", 0)
                 /\ \A m \in w..i : log[m] # Ev("spawn", "oews", 0)
        /\ \A i, j \in DOMAIN log :
             (i < j /\ log[i].ev = "read" /\ log[j].ev = "write"
                /\ log[i].phase = log[j].phase
                /\ \A m \in (i + 1)..(j - 1) : log[m].ev # "write") =>
               \A m \in i..j : log[m].phase = log[i].phase

\* C18 witness: both phases ran to the end, the wage phase with a fallback
\* batch, and the orchestrator finished
C18_Witness ==
  /\ call.fn = "sequence" /\ call.orch = "done" /\ call.round = 1
  /\ CountEv(call.log, "send", Len(call.log)) = 4
  /\ CountEv(call.log, "recv", Len(call.log)) = 4
  /\ CountEv(call.log, "write", Len(call.log)) = 2

\* C19: a phase that starts without a dataset file takes the prior dataset as
\* the empty mapping and does not fail for it: it ends in failure only when
\* a call failed, and after its merge the file exists and holds only records
\* the run produced (the wage phase one per state, the unemployment phase
\* one per state with a series in the response).
C19_MissingFileIsEmptyMapping ==
  (cur.phase # "none" /\ ~before.file.exists) =>
    /\ cur.end = "crashed" => CallFailed
    /\ EndedMerged =>
         /\ status = 0
         /\ file.exists
         /\ DOMAIN FileData \subseteq Abbrs
         /\ cur.phase = "oews" => DOMAIN FileData = Abbrs
         /\ cur.phase = "laus" =>
              DOMAIN FileData = {k \in Abbrs : Outcome(cur.api, k, "u").in}

\* C19 witness: the wage phase created the file with 49 records
C19_Witness ==
  /\ EndedMerged /\ cur.phase = "oews"
  /\ ~before.file.exists
  /\ file.exists
  /\ DOMAIN FileData = Abbrs
  /\ FileData["CA"] = FullRecord(Null, Num(15000000))

\* ---------------------------------------------------------------- rendering layer (app.js)
\* app.js:208-212
LOWER48_ABBRS ==
  {
    "AL", "AZ", "AR", "CA", "CO", "CT", "DE", "FL", "GA", "ID", "IL", "IN", "IA",
    "KS", "KY", "LA", "ME", "MD", "MA", "MI", "MN", "MS", "MO", "MT", "NE", "NV",
    "NH", "NJ", "NM", "NY", "NC", "ND", "OH", "OK", "OR", "PA", "RI", "SC", "SD",
    "TN", "TX", "UT", "VT", "VA", "WA", "WV", "WI", "WY", "DC" }

\* app.js:174-177 keys of METRIC_LABELS
METRICS == {UR, WAGE}

PrimaryPath == "data/latest.json"
SecondaryPath == "docs/data/latest.json"

\* what the page may find behind data/latest.json
AppDataPrimary ==
  ("CA" :> FullRecord(Num(410), Num(15000000))) @@ ("TX" :> FullRecord(Num(390), Null))
\* what it may find behind docs/data/latest.json: null fields, a record
\* without swdev_wage, a key outside the map
AppDataSecondary ==
  ("CA" :> FullRecord(Num(430), Num(16000000))) @@ ("TX" :> FullRecord(Null, Null))
    @@ ("AL" :> (UR :> Num(350))) @@ ("PR" :> FullRecord(Num(560), Null))

\* outcome of fetch(path) followed by json(): the fetch rejects, the response
\* is not ok, the body is no JSON, or the body parses to a dataset
FetchThrows == [kind |-> "throws", data |-> <<>>]
FetchNotOk == [kind |-> "notok", data |-> <<>>]
FetchBadJson == [kind |-> "badjson", data |-> <<>>]
FetchOk(d) == [kind |-> "ok", data |-> d]

PrimaryOutcomes ==
  {FetchThrows, FetchNotOk, FetchBadJson, FetchOk(AppDataPrimary), FetchOk(<<>>)}
SecondaryOutcomes ==
  {FetchThrows, FetchNotOk, FetchBadJson, FetchOk(AppDataSecondary), FetchOk(<<>>)}

\* variant of AfterPrimaryNotOk: no second path is tried, as in the first
\* version of boot (if (m.ok) metricsByAbbr = await m.json(); and nothing else)
AfterPrimaryNotOk_NoFallback == "loaded"

\* app.js:244-250 the else branch of if (m.ok): fetch the docs/ copy
AfterPrimaryNotOk == "fetch_secondary_else"

\* where an exception raised at position pc of boot is caught: by the outer
\* catch (app.js:251), by the inner catch {} (app.js:258), or by nothing
Handler(at) ==
  IF at \in {"fetch_primary", "fetch_secondary_else"} THEN "fetch_secondary_catch"
  ELSE IF at = "fetch_secondary_catch" THEN "loaded"
  ELSE "crashed"

\* app.js:272-277 f.properties.metrics = metricsByAbbr[abbr] || {}
FeatureMetrics(metricsByAbbr, abbr) ==
  IF abbr \in DOMAIN metricsByAbbr THEN metricsByAbbr[abbr] ELSE <<>>

\* app.js:335-337 rows of updateSidebar: the features of the map whose value
\* for the metric is a number
AllRows(metricsByAbbr, metricKey) ==
  {abbr \in LOWER48_ABBRS :
     LET m == FeatureMetrics(metricsByAbbr, abbr)
         v == IF metricKey \in DOMAIN m THEN m[metricKey] ELSE Undef
     IN  v[1] = "num"}

RECURSIVE SumOver(_, _, _)
SumOver(metricsByAbbr, metricKey, rows) ==
  IF rows = {} THEN 0
  ELSE LET a == CHOOSE x \in rows : TRUE
       IN  metricsByAbbr[a][metricKey][2] + SumOver(metricsByAbbr, metricKey, rows \ {a})

\* app.js:345-356 the statistics shown: dashes without rows, else average
\* (as sum and count), greatest and least value
NoStats == [n |-> 0, sum |-> 0, max |-> Undef, min |-> Undef]
Statistics(metricsByAbbr, metricKey) ==
  LET rows == AllRows(metricsByAbbr, metricKey)
      val(a) == metricsByAbbr[a][metricKey]
  IN  IF rows = {} THEN NoStats
      ELSE [n |-> Cardinality(rows),
            sum |-> SumOver(metricsByAbbr, metricKey, rows),
            max |-> val(CHOOSE a \in rows : \A b \in rows : val(b)[2] <= val(a)[2]),
            min |-> val(CHOOSE a \in rows : \A b \in rows : val(a)[2] <= val(b)[2])]

\* app.js:215-216, 221 the page at DOMContentLoaded
AppInit ==
  /\ Quiescent
  /\ call = NoCall
  /\ app = [pc |-> "fetch_primary", metricsByAbbr |-> <<>>, used |-> "none",
            log |-> <<>>, currentMetric |-> UR, selectionHistory |-> <<>>,
            stats |-> NoStats]

\* one fetch of boot with its outcome o: the dataset is taken from an ok
\* response that parses; a response that is not ok goes to next; an
\* exception goes to its handler
AppFetched(path, o, next) ==
  LET logged == [app EXCEPT !.log = Append(@, [path |-> path, kind |-> o.kind, data |-> o.data])]
  IN  IF o.kind = "ok"
      THEN [logged EXCEPT !.metricsByAbbr = o.data, !.used = path, !.pc = "loaded"]
      ELSE IF o.kind = "notok" THEN [logged EXCEPT !.pc = next]
      ELSE [logged EXCEPT !.pc = Handler(app.pc)]

\* app.js:239-243 fetch("data/latest.json") inside the try
AppFetchPrimary ==
  /\ app.pc = "fetch_primary"
  /\ \E o \in PrimaryOutcomes : app' = AppFetched(PrimaryPath, o, AfterPrimaryNotOk)
  /\ UNCHANGED <<pipeVars, call>>

\* app.js:244-250 fetch("docs/data/latest.json") in the else branch
AppFetchSecondaryElse ==
  /\ app.pc = "fetch_secondary_else"
  /\ \E o \in SecondaryOutcomes : app' = AppFetched(SecondaryPath, o, "loaded")
  /\ UNCHANGED <<pipeVars, call>>

\* app.js:251-259 fetch("docs/data/latest.json") in the catch block
AppFetchSecondaryCatch ==
  /\ app.pc = "fetch_secondary_catch"
  /\ \E o \in SecondaryOutcomes : app' = AppFetched(SecondaryPath, o, "loaded")
  /\ UNCHANGED <<pipeVars, call>>

\* app.js:272-300 attach the metrics, drawStates, updateSidebar
AppRender ==
  /\ app.pc = "loaded"
  /\ app' = [app EXCEPT !.pc = "ready",
                        !.stats = Statistics(app.metricsByAbbr, app.currentMetric)]
  /\ UNCHANGED <<pipeVars, call>>

\* app.js:405-413 the metric dropdown changes
AppSetMetric ==
  /\ app.pc = "ready"
  /\ \E key \in METRICS :
       app' = [app EXCEPT !.currentMetric = key,
                          !.stats = Statistics(app.metricsByAbbr, key)]
  /\ UNCHANGED <<pipeVars, call>>

\* the states of the map a behaviour clicks on
ClickedAbbrs == {"CA", "TX", "AL", "NY"}

\* variant of Selected: the clicked state is not removed from the rest
\* ([p.abbr, ...selectionHistory].slice(0, 3))
Selected_NoFilter(selectionHistory, abbr) ==
  LET s == <<abbr>> \o selectionHistory
  IN  SubSeq(s, 1, Min(3, Len(s)))

\* app.js:326 [p.abbr, ...selectionHistory.filter(a => a !== p.abbr)].slice(0, 3)
Selected(selectionHistory, abbr) ==
  LET s == <<abbr>> \o SelectSeq(selectionHistory, LAMBDA a : a # abbr)
  IN  SubSeq(s, 1, Min(3, Len(s)))

\* app.js:324-329 click on a state of the map
AppClick ==
  /\ app.pc = "ready"
  /\ \E abbr \in ClickedAbbrs :
       app' = [app EXCEPT !.selectionHistory = Selected(@, abbr),
                          !.stats = Statistics(app.metricsByAbbr, app.currentMetric)]
  /\ UNCHANGED <<pipeVars, call>>

AppNext ==
  \/ AppFetchPrimary \/ AppFetchSecondaryElse \/ AppFetchSecondaryCatch
  \/ AppRender \/ AppSetMetric \/ AppClick

SpecApp == AppInit /\ [][AppNext]_vars

\* the regions of the map with a number for the metric in the loaded dataset
NumericRegions(key) ==
  {k \in LOWER48_ABBRS \cap DOMAIN app.metricsByAbbr :
     key \in DOMAIN app.metricsByAbbr[k] /\ app.metricsByAbbr[k][key][1] = "num"}

\* C20: the page never fails over the dataset; it takes the primary path when
\* its fetch succeeds and parses, turns to the secondary path exactly when
\* the primary fetch failed, was not ok or did not parse, and goes on with
\* the empty dataset when neither gave one; the statistics count only the
\* regions that have a number for the metric.
C20_DatasetFallback ==
  /\ app.pc # "crashed"
  /\ app.pc \in {"loaded", "ready"} =>
       LET log == app.log
       IN  /\ Len(log) >= 1
           /\ log[1].path = PrimaryPath
           /\ log[1].kind = "ok" =>
                /\ Len(log) = 1
                /\ app.used = PrimaryPath
                /\ app.metricsByAbbr = log[1].data
           /\ log[1].kind # "ok" =>
                /\ Len(log) >= 2
                /\ \A i \in 2..Len(log) : log[i].path = SecondaryPath
                /\ IF log[Len(log)].kind = "ok"
                   THEN app.used = SecondaryPath /\ app.metricsByAbbr = log[Len(log)].data
                   ELSE app.used = "none" /\ app.metricsByAbbr = <<>>
                /\ \A i \in 2..(Len(log) - 1) : log[i].kind # "ok"
  /\ app.pc = "ready" =>
       /\ app.stats.n = Cardinality(NumericRegions(app.currentMetric))
       /\ app.stats.n = 0 => app.stats = NoStats

\* C20 witness: the primary fetch failed, the secondary dataset is shown, and
\* the unemployment statistics count CA (4.3) and AL (3.5) but neither TX
\* (null) nor PR (not on the map)
C20_Witness ==
  /\ app.pc = "ready"
  /\ Len(app.log) = 2
  /\ app.log[1].kind = "throws"
  /\ app.used = SecondaryPath
  /\ app.metricsByAbbr = AppDataSecondary
  /\ app.currentMetric = UR
  /\ app.stats = [n |-> 2, sum |-> 780, max |-> Num(430), min |-> Num(350)]

\* ---------------------------------------------------------------- stored numbers
\* C21: after a phase has merged and exited, a region for which the run
\* obtained no usable value (series absent, empty value, or a value that is
\* no finite number) and whose field of that phase held a number before
\* still holds that number.
C21_StoredNumberKept ==
  EndedMerged =>
    \A r \in 1..NumStates :
      LET abbr == STATES[r][1]
          f == OwnField(cur.phase)
      IN  (~ObtainedValue(r) /\ IsFinite(FieldOf(BeforeData, abbr, f))) =>
            FieldOf(FileData, abbr, f) = FieldOf(BeforeData, abbr, f)

\* ---------------------------------------------------------------- order of the phases
\* A whole run of each script whose calls all succeed, as a function of the
\* dataset it finds and of what the API holds.

\* fetch-oews.js:76-81 valuesPrimary after all primary chunks
WageValuesPrimary(api) ==
  LET chunks == Chunks(PrimaryIds)
      F[n \in 0..Len(chunks)] ==
        IF n = 0 THEN <<>>
        ELSE Assign(F[n - 1], FetchLatestOut(ReplySeries(api, chunks[n], 1)))
  IN  F[Len(chunks)]

\* fetch-oews.js:93-98 valuesFallback after the slices of datatype dt
FallbackSlices(api, vf, miss, dt) ==
  LET ids == FallbackIds(miss, dt)
      n == (Len(ids) + ChunkSize - 1) \div ChunkSize
      G[k \in 0..n] ==
        IF k = 0 THEN vf
        ELSE Assign(G[k - 1],
                    FetchLatestOut(ReplySeries(api, Slice(ids, (k - 1) * ChunkSize, ChunkSize), 1)))
  IN  G[n]

\* fetch-oews.js:90-108 valuesFallback after the fallback datatypes
WageValuesFallback(api, vp) ==
  LET T[t \in 0..Len(FALLBACK_DATATYPES)] ==
        IF t = 0 THEN [missing |-> MissingAfterPrimary(vp), vf |-> <<>>]
        ELSE IF Len(T[t - 1].missing) = 0 THEN T[t - 1]
             ELSE LET dt == FALLBACK_DATATYPES[t]
                      vf == FallbackSlices(api, T[t - 1].vf, T[t - 1].missing, dt)
                  IN  [missing |-> StillMissing(T[t - 1].missing, vf, dt), vf |-> vf]
  IN  T[Len(FALLBACK_DATATYPES)].vf

\* fetch-oews.js:64-136 the file after a run of the wage script
WageRun(f, api) ==
  LET vp == WageValuesPrimary(api)
  IN  Stringify(WageMerge(ReadExisting(f), vp, WageValuesFallback(api, vp)))

\* fetch-laus.js:46-104 the file after a run of the unemployment script
LausRun(f, api) ==
  Stringify(LausMerge(ReadExisting(f), ReplySeries(api, AllSeriesIds, 1)))

\* the two orders, from the same file and with the same API content
CommuteInit ==
  /\ Quiescent
  /\ app = NoApp
  /\ \E f \in InitFiles, w \in WageApis, l \in LausApis :
       call = [fn |-> "commute", prior |-> f, wapi |-> w, lapi |-> l,
               wl |-> f, wlDone |-> 0, lw |-> f, lwDone |-> 0]

\* node scripts/fetch-oews.js as the first script
CommuteWageFirst ==
  /\ call.fn = "commute" /\ call.wlDone = 0
  /\ call' = [call EXCEPT !.wl = WageRun(call.wl, call.wapi), !.wlDone = 1]
  /\ UNCHANGED <<pipeVars, app>>

\* node scripts/fetch-laus.js after it
CommuteLausSecond ==
  /\ call.fn = "commute" /\ call.wlDone = 1
  /\ call' = [call EXCEPT !.wl = LausRun(call.wl, call.lapi), !.wlDone = 2]
  /\ UNCHANGED <<pipeVars, app>>

\* node scripts/fetch-laus.js as the first script
CommuteLausFirst ==
  /\ call.fn = "commute" /\ call.lwDone = 0
  /\ call' = [call EXCEPT !.lw = LausRun(call.lw, call.lapi), !.lwDone = 1]
  /\ UNCHANGED <<pipeVars, app>>

\* node scripts/fetch-oews.js after it
CommuteWageSecond ==
  /\ call.fn = "commute" /\ call.lwDone = 1
  /\ call' = [call EXCEPT !.lw = WageRun(call.lw, call.wapi), !.lwDone = 2]
  /\ UNCHANGED <<pipeVars, app>>

CommuteNext ==
  \/ CommuteWageFirst \/ CommuteLausSecond
  \/ CommuteLausFirst \/ CommuteWageSecond

SpecCommute == CommuteInit /\ [][CommuteNext]_vars

\* C22: from the same prior file and with the same API content, the wage
\* script followed by the unemployment script leaves the same mapping of
\* regions to records as the unemployment script followed by the wage script.
C22_PhasesCommute ==
  (call.fn = "commute" /\ call.wlDone = 2 /\ call.lwDone = 2) =>
    ReadExisting(call.wl) = ReadExisting(call.lw)

\* ---------------------------------------------------------------- identifier round trip
\* The unemployment script builds an identifier from a code, the API echoes
\* it as seriesID, and the merge cuts the code out again and looks it up.

\* latest values the API returns for the series
TripValues == {T41, T43, <<>>}
\* the parsed latest.json the merge starts from
TripPriors == {<<>>, DataBoth}

TripInit ==
  /\ Quiescent
  /\ app = NoApp
  /\ \E f \in TableCodes \cup ForeignCodes, v \in TripValues, d \in TripPriors :
       call = [fn |-> "roundTrip", fips |-> f, value |-> v, prior |-> d,
               step |-> 0, id |-> <<"?">>, idx |-> 0, out |-> d]

\* fetch-laus.js:49 buildSeriesId(fips2)
TripBuild ==
  /\ call.fn = "roundTrip" /\ call.step = 0
  /\ call' = [call EXCEPT !.step = 1, !.id = buildSeriesId(call.fips)]
  /\ UNCHANGED <<pipeVars, app>>

\* fetch-laus.js:78-80 the region found for the echoed identifier
TripLookup ==
  /\ call.fn = "roundTrip" /\ call.step = 1
  /\ call' = [call EXCEPT !.step = 2, !.idx = AbbrIndexOf(call.id)]
  /\ UNCHANGED <<pipeVars, app>>

\* fetch-laus.js:76-93 the merge of a response holding that one series
TripMerge ==
  /\ call.fn = "roundTrip" /\ call.step = 2
  /\ call' = [call EXCEPT
       !.step = 3,
       !.out = LausMerge(call.prior,
                         << [seriesID |-> call.id, data |-> << [value |-> call.value] >>] >>)]
  /\ UNCHANGED <<pipeVars, app>>

TripNext == TripBuild \/ TripLookup \/ TripMerge

SpecTrip == TripInit /\ [][TripNext]_vars

\* characters 5..6 (counted from 0) of an identifier
CodeOfId(id) == SubSeq(id, 6, 7)

\* C23: for every code of the table, characters 5..6 of the identifier built
\* for it are that code, and the lookup of the identifier returns the one
\* table entry with that code; the merge of a returned series changes the
\* record of that region only, storing a returned number in its
\* unemployment_rate; a series whose characters 5..6 are no code of the
\* table leaves the dataset as it was.
C23_IdRoundTrip ==
  call.fn = "roundTrip" =>
    /\ (call.step >= 1 /\ call.fips \in TableCodes) => CodeOfId(call.id) = call.fips
    /\ (call.step >= 2 /\ call.fips \in TableCodes) =>
         /\ call.idx \in 1..NumStates
         /\ \A j \in 1..NumStates : STATES[j][2] = call.fips <=> j = call.idx
    /\ (call.step >= 2 /\ CodeOfId(call.id) \notin TableCodes) => call.idx = 0
    /\ call.step = 3 =>
         IF CodeOfId(call.id) \in TableCodes
         THEN LET abbr == STATES[call.idx][1]
              IN  /\ DOMAIN call.out = DOMAIN call.prior \cup {abbr}
                  /\ \A k \in DOMAIN call.prior \ {abbr} : call.out[k] = call.prior[k]
                  /\ FieldOf(call.out, abbr, WAGE) = FieldOf(call.prior, abbr, WAGE)
                  /\ call.value # <<>> =>
                       FieldOf(call.out, abbr, UR) = ParseFloat(call.value)
         ELSE call.out = call.prior

\* C23 witness: the value 4.3 returned for LASST060000000000003 is stored
\* under CA, replacing 4.1, and TX and PR keep their records
C23_Witness ==
  /\ call.fn = "roundTrip" /\ call.step = 3
  /\ call.fips = <<"0","6">> /\ call.value = T43 /\ call.prior = DataBoth
  /\ call.id = <<"L","A","S","S","T","0","6","0","0","0","0","0","0","0","0","0","0","0","0","3">>
  /\ STATES[call.idx][1] = "CA"
  /\ call.out["CA"] = FullRecord(Num(430), Num(15000000))
  /\ call.out["TX"] = DataBoth["TX"] /\ call.out["PR"] = DataBoth["PR"]

\* ---------------------------------------------------------------- batches of the wage phase
\* the identifiers the running script has sent with datatype dt, in order
QueriedIds(dt) ==
  LET F[n \in 0..Len(reqs)] ==
        IF n = 0 THEN <<>>
        ELSE IF reqs[n].dt = dt THEN F[n - 1] \o reqs[n].ids ELSE F[n - 1]
  IN  F[Len(reqs)]

\* no two states share a primary identifier
PrimaryIdsDistinct ==
  \A i, j \in 1..NumStates : PrimaryIds[i] = PrimaryIds[j] => i = j

\* the states still missing when fallback datatype t is about to be queried
MissingAtTier(t) ==
  LET M[k \in 1..t] ==
        IF k = 1 THEN MissingAfterPrimary(valuesPrimary)
        ELSE StillMissing(M[k - 1], valuesFallback, FALLBACK_DATATYPES[k - 1])
  IN  M[t]

\* the wage script has sent all its requests
WageCallsDone ==
  cur.phase = "oews" /\ pc \in {"oews_merge", "oews_mirror", "exited"} /\ cur.end # "crashed"

\* C24: in a run of the wage script the primary batches sent so far,
\* concatenated in the order sent, are an initial part of the list of the 49
\* primary identifiers, which are pairwise distinct, and the whole list once
\* the primary loop is over; the batches of each fallback datatype are
\* likewise an initial part of, and after the last call equal to, the list
\* of identifiers of the states that were missing when that datatype began.
C24_BatchesPartition ==
  cur.phase = "oews" =>
    LET prim == QueriedIds(PRIMARY_DATATYPE)
    IN  /\ PrimaryIdsDistinct
        /\ Len(prim) <= NumStates
        /\ prim = SubSeq(PrimaryIds, 1, Len(prim))
        /\ (pc # "oews_primary" /\ cur.stage # "primary") => prim = PrimaryIds
        /\ \A t \in DOMAIN FALLBACK_DATATYPES :
             LET fb == QueriedIds(FALLBACK_DATATYPES[t])
                 want == IF pc = "oews_primary" \/ cur.stage = "primary" THEN <<>>
                         ELSE FallbackIds(MissingAtTier(t), FALLBACK_DATATYPES[t])
             IN  /\ Len(fb) <= Len(want)
                 /\ fb = SubSeq(want, 1, Len(fb))
                 /\ WageCallsDone => fb = want

\* C24 witness: only CA has a primary entry (the text "-"), so after two
\* primary batches of 25 and 24 identifiers the hourly datatype is queried
\* for the other 48 states in two batches of 25 and 23
C24_Witness ==
  /\ WageCallsDone /\ EndedMerged
  /\ Len(reqs) = 4
  /\ reqs[1].dt = PRIMARY_DATATYPE /\ Len(reqs[1].ids) = 25
  /\ reqs[2].dt = PRIMARY_DATATYPE /\ Len(reqs[2].ids) = 24
  /\ reqs[1].ids \o reqs[2].ids = PrimaryIds
  /\ reqs[3].dt = FALLBACK_DATATYPES[1] /\ Len(reqs[3].ids) = 25
  /\ reqs[4].dt = FALLBACK_DATATYPES[1] /\ Len(reqs[4].ids) = 23
  /\ Len(MissingAtTier(1)) = NumStates - 1
  /\ \A k \in 1..(NumStates - 1) : STATES[MissingAtTier(1)[k]][1] # "CA"

\* ---------------------------------------------------------------- selection history
\* at most three codes, none twice
HistoryOk(h) ==
  /\ Len(h) <= 3
  /\ \A i, j \in 1..Len(h) : h[i] = h[j] => i = j

\* the position of code a in h
PosIn(h, a) == CHOOSE i \in 1..Len(h) : h[i] = a

\* new is old after a click on code c: c first, then the other codes of old
\* in their order, the last ones dropped only where the cap of three cuts
ClickedInto(old, new, c) ==
  /\ Len(new) >= 1 /\ new[1] = c
  /\ \A i \in 2..Len(new) : new[i] # c /\ \E k \in 1..Len(old) : old[k] = new[i]
  /\ \A i, j \in 2..Len(new) : i < j => PosIn(old, new[i]) < PosIn(old, new[j])
  /\ \A k \in 1..Len(old) :
       (old[k] # c /\ \A i \in 1..Len(new) : new[i] # old[k]) =>
         /\ Len(new) = 3
         /\ \A i \in 2..3 : PosIn(old, new[i]) < k

\* one step of the loaded page, seen on selectionHistory
HistoryStep ==
  (app.pc = "ready" /\ app'.pc = "ready") =>
    LET old == app.selectionHistory
        new == app'.selectionHistory
    IN  /\ app'.currentMetric # app.currentMetric => new = old
        /\ new # old => \E c \in ClickedAbbrs : ClickedInto(old, new, c)

====
